---- MODULE Spec2Model ----
(***************************************************************************)
(* Edge rendering on a mesh: the host side (App, setupEdgeRendering, the   *)
(* bake poll of createSDFTexture) as a state machine, and the fragment     *)
(* stages (signedDistanceToSegment, the distance aggregation loops) as     *)
(* operators evaluated on bounded inputs.                                  *)
(*                                                                         *)
(* Units: lengths of the host side (edgeWidth) are in thousandths, so 0.3  *)
(* is 300.  Timer delays are in milliseconds.                              *)
(***************************************************************************)
EXTENDS Integers, Sequences, FiniteSets, TLC

VARIABLES
  phase,            \* "boot" before new App(), "running" after the constructor
  nextId,           \* allocator of object identities
  meshMaterial,     \* mesh.material: an object identity, 0 when none is bound
  materialName,     \* name of every ShaderMaterial created, by identity
  edgeRenderer,     \* App.edgeRenderer: the record setupEdgeRendering returned
  edgeWidthUniform, \* the "edgeWidth" float set on a material, by identity
  rtReady,          \* renderTarget.isReadyForRendering()
  timers,           \* pending window.setTimeout callbacks
  bakeRenders,      \* number of renderTarget.render() calls issued
  readbacks,        \* number of renderTarget.readPixels() calls issued
  afterRenderOnce,  \* one-shot observers waiting on onAfterRenderObservable
  polls,            \* calls of renderWhenReady so far, counted up to MaxPolls
  ui,               \* background colours of the three buttons
  sliderValue,      \* edgeWidthSlider.value
  inspectorVisible, \* scene.debugLayer.isVisible()
  debugPlaneVisible,\* isVisible of every debug plane created, by identity
  threw,            \* the last handler ended in an uncaught exception
  lastSampled,      \* what the last main-loop frame read from the SDF target
  fragP,            \* fragment stage input: world position of the fragment
  edges,            \* fragment stage input: the edge list (pairs of points)
  numEdgesUniform,  \* fragment stage input: the numEdges uniform
  divZero,          \* what the GLSL build yields for 0.0 / 0.0
  pixelWidth,       \* fragment stage input: fwidth(minDist), in thousandths
  outDirect,        \* result of the direct fragment stage, <<>> before it ran
  outBake,          \* result of the bake fragment stage, <<>> before it ran
  sdfTexels,        \* lookup stage input: the SDF texels around the fragment
  vUV,              \* lookup stage input: the fragment's place in its texel
  lookupEdgeWidth,  \* lookup stage input: the edgeWidth uniform
  aa,               \* lookup stage input: the derivative term, in thousandths
  outLookup         \* result of the lookup fragment stage, <<>> before it ran

hostVars == <<phase, nextId, meshMaterial, materialName, edgeRenderer,
              edgeWidthUniform, rtReady, timers, bakeRenders, readbacks,
              afterRenderOnce, polls, ui, sliderValue, inspectorVisible,
              debugPlaneVisible, threw, lastSampled>>

lookupVars == <<sdfTexels, vUV, lookupEdgeWidth, aa, outLookup>>

shaderVars == <<fragP, edges, numEdgesUniform, divZero, pixelWidth,
                outDirect, outBake, lookupVars>>

vars == <<hostVars, shaderVars>>

(***************************************************************************)
(* Host side                                                               *)
(***************************************************************************)

\* The count of polls kept in the state stops growing here.
MaxPolls == 3

CountPoll(n) == IF n < MaxPolls THEN n + 1 ELSE n

\* window.setTimeout(renderWhenReady, 16): the delay of a retry.
RetryDelay == 16

\* options.edgeWidth || 0.3 : the default applies when the option is absent
\* (the empty sequence) and also when it is 0.
DefaultEdgeWidth == 300

\* Slider range 0.01 .. 1.0 and starting value 0.3.
SliderMinimum == 10
SliderMaximum == 1000
SliderInitial == 300

\* Values a slider drag can report.
SliderValues == {SliderMinimum, SliderInitial, 650, SliderMaximum}

\* EdgeRenderingOptions a caller of setupEdgeRendering can pass.
EdgeRenderingOptions ==
  [edgeWidth : {<<>>, <<0>>, <<300>>, <<500>>},
   useDirectCalculation : BOOLEAN]

\* Keyboard events delivered to scene.onKeyboardObservable.
KeyEvents == [key : {"1", "2", "d", "i", "x"}, mods : BOOLEAN]

OptEdgeWidth(options) ==
  IF options.edgeWidth = <<>> THEN DefaultEdgeWidth
  ELSE IF options.edgeWidth[1] = 0 THEN DefaultEdgeWidth
  ELSE options.edgeWidth[1]

RetryTimer == [callback |-> "renderWhenReady", delay |-> RetryDelay]

\* Mutant: the retry is scheduled whether or not the pass was issued.
renderWhenReady_AlwaysReschedule(ready, st) ==
  IF ready
  THEN [st EXCEPT !.bakeRenders = @ + 1, !.readbacks = @ + 1,
                  !.afterRenderOnce = @ + 1,
                  !.timers = Append(@, RetryTimer)]
  ELSE [st EXCEPT !.timers = Append(@, RetryTimer)]

\* Mutant: a target that is not ready is given up on.
renderWhenReady_NoRetry(ready, st) ==
  IF ready
  THEN [st EXCEPT !.bakeRenders = @ + 1, !.readbacks = @ + 1,
                  !.afterRenderOnce = @ + 1]
  ELSE st

\* One readiness poll.  st holds the bake state the poll reads and writes.
renderWhenReady(ready, st) ==
  IF ready
  THEN [st EXCEPT !.bakeRenders = @ + 1,      \* renderTarget.render()
                  !.readbacks = @ + 1,        \* readPixels() for the log
                  !.afterRenderOnce = @ + 1]  \* addOnce, after the render
  ELSE [st EXCEPT !.timers = Append(@, RetryTimer)]

BakeState ==
  [bakeRenders |-> bakeRenders, readbacks |-> readbacks,
   afterRenderOnce |-> afterRenderOnce, timers |-> timers]

SetBakeState(st) ==
  /\ bakeRenders' = st.bakeRenders
  /\ readbacks' = st.readbacks
  /\ afterRenderOnce' = st.afterRenderOnce
  /\ timers' = st.timers

\* Mutant: the chosen shader is applied only for direct calculation, so the
\* material createSDFTexture left on the mesh stays bound otherwise.
ApplyChosenShader_NoElse(options, direct, lookup, current) ==
  IF options.useDirectCalculation THEN direct ELSE current

\* "Apply the chosen shader": current is what createSDFTexture left bound.
ApplyChosenShader(options, direct, lookup, current) ==
  IF options.useDirectCalculation THEN direct ELSE lookup

\* new App(): setupScene, setupMesh (loadMesh, setupEdgeRendering with its
\* first synchronous poll), createUI, setupKeyboardShortcuts, runRenderLoop.
Construct(options, ready) ==
  /\ phase = "boot"
  /\ LET edgeTexture == nextId          \* loadEdgeTexture
         directEdge  == nextId + 1      \* createDirectEdgeShader
         sdfGen      == nextId + 2      \* createSDFTexture: sdfMaterial
         sdfTexture  == nextId + 3      \* createSDFTexture: renderTarget
         lookupEdge  == nextId + 4      \* createLookupShader
     IN /\ nextId' = nextId + 5
        /\ materialName' = (directEdge :> "directEdge") @@ (sdfGen :> "sdfGen")
                             @@ (lookupEdge :> "lookupEdge")
        /\ edgeWidthUniform' = (directEdge :> OptEdgeWidth(options))
                                 @@ (lookupEdge :> OptEdgeWidth(options))
        /\ meshMaterial' = ApplyChosenShader(options, directEdge, lookupEdge, sdfGen)
        /\ edgeRenderer' = [directEdgeShader |-> directEdge,
                            lookupShader |-> lookupEdge,
                            sdfTexture |-> sdfTexture,
                            edgeTexture |-> edgeTexture]
  /\ rtReady' = ready
  /\ SetBakeState(renderWhenReady(ready, BakeState))
  /\ polls' = CountPoll(polls)
  /\ ui' = [directButton |-> "green", lookupButton |-> "gray",
            debugSdfButton |-> "gray"]
  /\ sliderValue' = SliderInitial
  /\ phase' = "running"
  /\ threw' = FALSE
  /\ UNCHANGED <<inspectorVisible, debugPlaneVisible, lastSampled>>
  /\ UNCHANGED shaderVars

\* Mutant: the render loop is started only once the bake pass was issued.
RenderLoopRunning_AfterBake == phase = "running" /\ bakeRenders > 0

\* engine.runRenderLoop was called: frames are delivered.
RenderLoopRunning == phase = "running"

\* The backend finishes creating the resources of the offscreen target.
TargetBecomesReady ==
  /\ phase = "running"
  /\ ~rtReady
  /\ rtReady' = TRUE
  /\ UNCHANGED <<phase, nextId, meshMaterial, materialName, edgeRenderer,
                 edgeWidthUniform, timers, bakeRenders, readbacks,
                 afterRenderOnce, polls, ui, sliderValue, inspectorVisible,
                 debugPlaneVisible, threw, lastSampled>>
  /\ UNCHANGED shaderVars

\* A pending timeout fires and calls renderWhenReady.
TimerFire ==
  /\ phase = "running"
  /\ timers # <<>>
  /\ SetBakeState(renderWhenReady(rtReady, [BakeState EXCEPT !.timers = Tail(@)]))
  /\ polls' = CountPoll(polls)
  /\ threw' = FALSE
  /\ UNCHANGED <<phase, nextId, meshMaterial, materialName, edgeRenderer,
                 edgeWidthUniform, rtReady, ui, sliderValue, inspectorVisible,
                 debugPlaneVisible, lastSampled>>
  /\ UNCHANGED shaderVars

\* One frame of the main loop: scene.render() draws the mesh with the bound
\* material.  The SDF target is in no render list of the scene, so a frame
\* only reads it, through the lookup material's sampler.
Frame ==
  /\ RenderLoopRunning
  /\ lastSampled' =
       IF materialName[meshMaterial] = "lookupEdge"
       THEN (IF bakeRenders = 0 THEN "unbaked" ELSE "baked")
       ELSE "none"
  /\ threw' = FALSE
  /\ UNCHANGED <<phase, nextId, meshMaterial, materialName, edgeRenderer,
                 edgeWidthUniform, rtReady, timers, bakeRenders, readbacks,
                 afterRenderOnce, polls, ui, sliderValue, inspectorVisible,
                 debugPlaneVisible>>
  /\ UNCHANGED shaderVars

\* Mutant: selecting the lookup mode bakes a new SDF texture.
SelectLookup_Rebake ==
  /\ meshMaterial' = edgeRenderer.lookupShader
  /\ ui' = [ui EXCEPT !.directButton = "gray", !.lookupButton = "green"]
  /\ edgeRenderer' = [edgeRenderer EXCEPT !.sdfTexture = nextId]
  /\ nextId' = nextId + 1
  /\ SetBakeState(renderWhenReady(rtReady, [BakeState EXCEPT !.timers = <<>>]))
  /\ polls' = CountPoll(polls)
  /\ UNCHANGED <<materialName, edgeWidthUniform, rtReady>>

\* The body shared by directButton.onPointerUp and key "1".
SelectDirect ==
  /\ meshMaterial' = edgeRenderer.directEdgeShader
  /\ ui' = [ui EXCEPT !.directButton = "green", !.lookupButton = "gray"]
  /\ UNCHANGED <<nextId, materialName, edgeRenderer, edgeWidthUniform, rtReady,
                 timers, bakeRenders, readbacks, afterRenderOnce, polls>>

\* The body shared by lookupButton.onPointerUp and key "2".
SelectLookup ==
  /\ meshMaterial' = edgeRenderer.lookupShader
  /\ ui' = [ui EXCEPT !.directButton = "gray", !.lookupButton = "green"]
  /\ UNCHANGED <<nextId, materialName, edgeRenderer, edgeWidthUniform, rtReady,
                 timers, bakeRenders, readbacks, afterRenderOnce, polls>>

DirectButtonUp ==
  /\ phase = "running"
  /\ SelectDirect
  /\ threw' = FALSE
  /\ UNCHANGED <<phase, sliderValue, inspectorVisible, debugPlaneVisible,
                 lastSampled>>
  /\ UNCHANGED shaderVars

LookupButtonUp ==
  /\ phase = "running"
  /\ SelectLookup
  /\ threw' = FALSE
  /\ UNCHANGED <<phase, sliderValue, inspectorVisible, debugPlaneVisible,
                 lastSampled>>
  /\ UNCHANGED shaderVars

\* The "show inspector" button.
InspectorButtonUp ==
  /\ phase = "running"
  /\ inspectorVisible' = TRUE
  /\ threw' = FALSE
  /\ UNCHANGED <<phase, nextId, meshMaterial, materialName, edgeRenderer,
                 edgeWidthUniform, rtReady, timers, bakeRenders, readbacks,
                 afterRenderOnce, polls, ui, sliderValue, debugPlaneVisible,
                 lastSampled>>
  /\ UNCHANGED shaderVars

\* edgeWidthSlider.onValueChangedObservable: fires when the value changes.
SliderChanged(value) ==
  /\ phase = "running"
  /\ value # sliderValue
  /\ sliderValue' = value
  /\ edgeWidthUniform' =
       [edgeWidthUniform EXCEPT ![edgeRenderer.directEdgeShader] = value,
                                ![edgeRenderer.lookupShader] = value]
  /\ threw' = FALSE
  /\ UNCHANGED <<phase, nextId, meshMaterial, materialName, edgeRenderer,
                 rtReady, timers, bakeRenders, readbacks, afterRenderOnce, polls, ui,
                 inspectorVisible, debugPlaneVisible, lastSampled>>
  /\ UNCHANGED shaderVars

\* The keyboard callback, one event: the inspector chord, "1", "2", "d".
\* this.edgeRenderer.sdfDebugPlane is read as a field of the record
\* setupEdgeRendering returned; reading isVisible of an absent field throws.
OnKeyboard(ev) ==
  /\ phase = "running"
  /\ inspectorVisible' =
       IF ev.mods /\ ev.key = "i" THEN ~inspectorVisible ELSE inspectorVisible
  /\ CASE ev.key = "1" ->
            /\ SelectDirect
            /\ threw' = FALSE
            /\ UNCHANGED debugPlaneVisible
       [] ev.key = "2" ->
            /\ SelectLookup
            /\ threw' = FALSE
            /\ UNCHANGED debugPlaneVisible
       [] ev.key = "d" ->
            IF "sdfDebugPlane" \in DOMAIN edgeRenderer
            THEN /\ debugPlaneVisible' =
                      [debugPlaneVisible EXCEPT
                         ![edgeRenderer.sdfDebugPlane] = ~@]
                 /\ ui' = [ui EXCEPT !.debugSdfButton =
                             IF debugPlaneVisible'[edgeRenderer.sdfDebugPlane]
                             THEN "green" ELSE "gray"]
                 /\ threw' = FALSE
                 /\ UNCHANGED <<nextId, meshMaterial, materialName,
                                edgeRenderer, edgeWidthUniform, rtReady, timers,
                                bakeRenders, readbacks, afterRenderOnce, polls>>
            ELSE /\ threw' = TRUE    \* TypeError: reading 'isVisible' of undefined
                 /\ UNCHANGED <<nextId, meshMaterial, materialName,
                                edgeRenderer, edgeWidthUniform, rtReady, timers,
                                bakeRenders, readbacks, afterRenderOnce, polls, ui,
                                debugPlaneVisible>>
       [] OTHER ->
            /\ threw' = FALSE
            /\ UNCHANGED <<nextId, meshMaterial, materialName, edgeRenderer,
                           edgeWidthUniform, rtReady, timers, bakeRenders,
                           readbacks, afterRenderOnce, polls, ui, debugPlaneVisible>>
  /\ UNCHANGED <<phase, sliderValue, lastSampled>>
  /\ UNCHANGED shaderVars

HostInit ==
  /\ phase = "boot"
  /\ nextId = 1
  /\ meshMaterial = 0
  /\ materialName = <<>>
  /\ edgeRenderer = <<>>
  /\ edgeWidthUniform = <<>>
  /\ rtReady = FALSE
  /\ timers = <<>>
  /\ bakeRenders = 0
  /\ readbacks = 0
  /\ afterRenderOnce = 0
  /\ polls = 0
  /\ ui = <<>>
  /\ sliderValue = SliderInitial
  /\ inspectorVisible = FALSE
  /\ debugPlaneVisible = <<>>
  /\ threw = FALSE
  /\ lastSampled = "none"

ShaderIdle ==
  /\ fragP = <<0, 0, 0>>
  /\ edges = <<>>
  /\ numEdgesUniform = 0
  /\ divZero = "nan"
  /\ pixelWidth = 0
  /\ outDirect = <<>>
  /\ outBake = <<>>
  /\ sdfTexels = <<>>
  /\ vUV = <<0, 0>>
  /\ lookupEdgeWidth = DefaultEdgeWidth
  /\ aa = 0
  /\ outLookup = <<>>

Init == HostInit /\ ShaderIdle

Next ==
  \/ \E options \in EdgeRenderingOptions, ready \in BOOLEAN :
       Construct(options, ready)
  \/ TargetBecomesReady
  \/ TimerFire
  \/ Frame
  \/ DirectButtonUp
  \/ LookupButtonUp
  \/ InspectorButtonUp
  \/ \E value \in SliderValues : SliderChanged(value)
  \/ \E ev \in KeyEvents : OnKeyboard(ev)

Spec == Init /\ [][Next]_vars

\* Timers that are due do fire: the browser's event loop runs every task.
LiveSpec == Spec /\ WF_vars(TimerFire)

(***************************************************************************)
(* Fragment stages                                                         *)
(*                                                                         *)
(* Points are triples of integers.  A float that holds a length is kept    *)
(* exactly, as the square it is the root of: [num, den] stands for         *)
(* sqrt(num / den), in lowest terms, with a sign bit and a NaN flag.       *)
(* Rounding of the 32-bit floats is not modelled.                          *)
(***************************************************************************)

\* The edge lists evaluated hold at most this many segments.
MaxEdges == 2

\* float minDist = 1000.0 (direct) and 10000.0 (bake).
DirectInitialMinDist == 1000
SdfGenInitialMinDist == 10000

\* for (int i = 0; i < 336; i++), in the direct and in the bake stage.
DirectLoopBound == 336
SdfGenLoopBound == 336

\* smoothstep(0.3 - aa, 0.3 + aa, distance) of the lookup stage, in thousandths.
LookupThreshold == 300

Vec3Sub(u, v) == <<u[1] - v[1], u[2] - v[2], u[3] - v[3]>>

Dot(u, v) == u[1] * v[1] + u[2] * v[2] + u[3] * v[3]

Cross(u, v) ==
  <<u[2] * v[3] - u[3] * v[2],
    u[3] * v[1] - u[1] * v[3],
    u[1] * v[2] - u[2] * v[1]>>

RECURSIVE Gcd(_, _)
Gcd(x, y) == IF y = 0 THEN x ELSE Gcd(y, x % y)

NaN == [nan |-> TRUE, neg |-> FALSE, num |-> 0, den |-> 1]

\* The non-negative float sqrt(num / den).
Magnitude(num, den) ==
  LET g == Gcd(num, den)
  IN [nan |-> FALSE, neg |-> FALSE, num |-> num \div g, den |-> den \div g]

\* The float literal k.0 or a whole number of thousandths, k >= 0.
Whole(k) == Magnitude(k * k, 1)
Thousandths(k) == Magnitude(k * k, 1000000)

\* length(w / m) for an integer vector w and m > 0.
Length(w, m) == Magnitude(Dot(w, w), m * m)

\* x * s for s = 1.0 or s = -1.0.
TimesSign(x, s) == IF x.nan \/ s = 1 THEN x ELSE [x EXCEPT !.neg = ~x.neg]

\* abs(x)
Abs(x) == IF x.nan THEN x ELSE [x EXCEPT !.neg = FALSE]

\* x < 0.0
IsNegative(x) == ~x.nan /\ x.neg /\ x.num > 0

\* x < y for floats that are not negative; a comparison with NaN is false.
\* The whole parts are compared first, so no product leaves the integers
\* of the model checker.
FloatLess(x, y) ==
  IF x.nan \/ y.nan THEN FALSE
  ELSE LET fx == x.num \div x.den
           fy == y.num \div y.den
       IN IF fx # fy THEN fx < fy
          ELSE (x.num % x.den) * y.den < (y.num % y.den) * x.den

\* min(x, y) of GLSL: y if y < x, otherwise x.
GlslMin(x, y) == IF FloatLess(y, x) THEN y ELSE x

\* loadEdgeTexture: the flattened edge list, one texel per end point, and
\* the edge count.
loadEdgeTexture(edgeData) ==
  [edgeTexture |->
     [i \in 1..(2 * Len(edgeData)) |->
        IF i % 2 = 1 THEN edgeData[(i + 1) \div 2][1] ELSE edgeData[i \div 2][2]],
   edgeCount |-> Len(edgeData)]

\* Mutant: the coordinate divides by the number of edges, not of texels.
TexCoord_PerEdge(k, numEdges) == [num |-> 2 * k + 1, den |-> 2 * numEdges]

\* (float(k) + 0.5) / float(numEdges * 2), as a fraction.
TexCoord(k, numEdges) == [num |-> 2 * k + 1, den |-> 2 * (numEdges * 2)]

\* Nearest sampling: the texel a coordinate falls in, floor(coord * width).
\* A coordinate with denominator 0 is +Inf, beyond the last texel.
RawTexel(width, coord) ==
  IF coord.den = 0 THEN width ELSE (coord.num * width) \div coord.den

\* Clamped addressing (wrapU = CLAMP_ADDRESSMODE) brings it into the row.
NearestTexel(width, coord) ==
  LET raw == RawTexel(width, coord)
  IN IF raw < 0 THEN 0 ELSE IF raw > width - 1 THEN width - 1 ELSE raw

\* texture2D(edgeTexture, vec2(coord, 0.5)).xyz with nearest sampling and
\* clamped addressing; a texture without texels samples as zero.
texture2D(tex, coord) ==
  LET width == Cardinality(DOMAIN tex)     \* the number of texels
  IN IF width = 0 THEN <<0, 0, 0>> ELSE tex[NearestTexel(width, coord) + 1]

\* Mutant: the projection parameter is not clamped (distance to the line).
signedDistanceToSegment_NoClamp(p, a, b, dz) ==
  LET ab == Vec3Sub(b, a)
      pa == Vec3Sub(p, a)
      n == Dot(pa, ab)
      m == Dot(ab, ab)
      normal == Cross(ab, pa)
      sign == IF Dot(normal, normal) > 0 THEN 1 ELSE -1
  IN IF m = 0
     THEN IF dz = "nan" THEN NaN ELSE TimesSign(Length(pa, 1), sign)
     ELSE LET w == <<p[1] * m - (a[1] * m + n * ab[1]),
                     p[2] * m - (a[2] * m + n * ab[2]),
                     p[3] * m - (a[3] * m + n * ab[3])>>
          IN TimesSign(Length(w, m), sign)

\* Mutant: the sign test is >= 0.0, which every point passes.
signedDistanceToSegment_SignGeq(p, a, b, dz) ==
  LET ab == Vec3Sub(b, a)
      pa == Vec3Sub(p, a)
      n == Dot(pa, ab)
      m == Dot(ab, ab)
      normal == Cross(ab, pa)
      sign == IF Dot(normal, normal) >= 0 THEN 1 ELSE -1
  IN IF m = 0
     THEN IF dz = "nan" THEN NaN ELSE TimesSign(Length(pa, 1), sign)
     ELSE LET tn == IF n < 0 THEN 0 ELSE IF n > m THEN m ELSE n
              w == <<p[1] * m - (a[1] * m + tn * ab[1]),
                     p[2] * m - (a[2] * m + tn * ab[2]),
                     p[3] * m - (a[3] * m + tn * ab[3])>>
          IN TimesSign(Length(w, m), sign)

\* signedDistanceToSegment of the direct stage.  t = n / m; after the clamp
\* it is tn / m; projection = a + t * ab; w is (p - projection) * m.
\* With a = b the quotient is 0.0 / 0.0: dz says whether the build yields
\* NaN, which every later operation keeps, or a number, and then
\* projection = a + t * 0 = a.
signedDistanceToSegment(p, a, b, dz) ==
  LET ab == Vec3Sub(b, a)
      pa == Vec3Sub(p, a)
      n == Dot(pa, ab)
      m == Dot(ab, ab)
      normal == Cross(ab, pa)
      sign == IF Dot(normal, normal) > 0 THEN 1 ELSE -1
  IN IF m = 0
     THEN IF dz = "nan" THEN NaN ELSE TimesSign(Length(pa, 1), sign)
     ELSE LET tn == IF n < 0 THEN 0 ELSE IF n > m THEN m ELSE n
              w == <<p[1] * m - (a[1] * m + tn * ab[1]),
                     p[2] * m - (a[2] * m + tn * ab[2]),
                     p[3] * m - (a[3] * m + tn * ab[3])>>
          IN TimesSign(Length(w, m), sign)

\* signedDistanceToSegment of the bake stage: the same text.
sdfGen_signedDistanceToSegment(p, a, b, dz) ==
  LET ab == Vec3Sub(b, a)
      pa == Vec3Sub(p, a)
      n == Dot(pa, ab)
      m == Dot(ab, ab)
      normal == Cross(ab, pa)
      sign == IF Dot(normal, normal) > 0 THEN 1 ELSE -1
  IN IF m = 0
     THEN IF dz = "nan" THEN NaN ELSE TimesSign(Length(pa, 1), sign)
     ELSE LET tn == IF n < 0 THEN 0 ELSE IF n > m THEN m ELSE n
              w == <<p[1] * m - (a[1] * m + tn * ab[1]),
                     p[2] * m - (a[2] * m + tn * ab[2]),
                     p[3] * m - (a[3] * m + tn * ab[3])>>
          IN TimesSign(Length(w, m), sign)

\* Mutant: the distance of the last segment replaces the minimum.
StoreMinimum_Overwrite(minDist, dist) == IF dist.nan THEN minDist ELSE Abs(dist)

\* minDist = min(minDist, abs(dist))
StoreMinimum(minDist, dist) == GlslMin(minDist, Abs(dist))

\* Mutant: the loop is left only once i exceeds numEdges.
DirectLoopContinues_OffByOne(i, numEdges) ==
  i < DirectLoopBound /\ ~(i > numEdges)

\* Mutant: the loop has no fixed bound and runs over every segment.
DirectLoopContinues_NoCap(i, numEdges) == ~(i >= numEdges)

\* for (int i = 0; i < 336; i++) { if (i >= numEdges) break; ...
DirectLoopContinues(i, numEdges) == i < DirectLoopBound /\ ~(i >= numEdges)

\* Mutant: the bake stage leaves the loop one segment early.
SdfGenLoopContinues_OneLess(i, numEdges) ==
  i < SdfGenLoopBound /\ ~(i + 1 >= numEdges)

SdfGenLoopContinues(i, numEdges) == i < SdfGenLoopBound /\ ~(i >= numEdges)

\* What a stage has computed so far: the running minimum, the number of loop
\* bodies executed, the value signedDistanceToSegment returned in each, and
\* the number of divisions by float(numEdges * 2) evaluated.
LoopStart(initial) ==
  [minDist |-> Whole(initial), iterations |-> 0, dists |-> <<>>, divisions |-> 0]

\* One body of the loop of the direct stage.
directBody(i, acc, vPosition, tex, numEdges, dz) ==
  LET point1 == texture2D(tex, TexCoord(i * 2, numEdges))
      point2 == texture2D(tex, TexCoord(i * 2 + 1, numEdges))
      dist == signedDistanceToSegment(vPosition, point1, point2, dz)
  IN [minDist |-> StoreMinimum(acc.minDist, dist),
      iterations |-> acc.iterations + 1,
      dists |-> Append(acc.dists, dist),
      divisions |-> acc.divisions + 2]

\* The iterations from i on, up to but not including iteration stop.
RECURSIVE directBlock(_, _, _, _, _, _, _)
directBlock(i, stop, acc, vPosition, tex, numEdges, dz) ==
  IF i >= stop \/ ~DirectLoopContinues(i, numEdges) THEN acc
  ELSE directBlock(i + 1, stop, directBody(i, acc, vPosition, tex, numEdges, dz),
                   vPosition, tex, numEdges, dz)

\* The loop of the direct stage from iteration i on.  It is unrolled 16
\* iterations at a time, which keeps the evaluation of long edge lists
\* shallow; next is the index the loop has reached after them.
RECURSIVE directLoop(_, _, _, _, _, _)
directLoop(i, acc, vPosition, tex, numEdges, dz) ==
  IF ~DirectLoopContinues(i, numEdges) THEN acc
  ELSE LET done == directBlock(i, i + 16, acc, vPosition, tex, numEdges, dz)
           next == i + (done.iterations - acc.iterations)
       IN directLoop(next, done, vPosition, tex, numEdges, dz)

\* One body of the loop of the bake stage.
sdfGenBody(i, acc, vWorldPos, tex, numEdges, dz) ==
  LET point1 == texture2D(tex, TexCoord(i * 2, numEdges))
      point2 == texture2D(tex, TexCoord(i * 2 + 1, numEdges))
      dist == sdfGen_signedDistanceToSegment(vWorldPos, point1, point2, dz)
  IN [minDist |-> StoreMinimum(acc.minDist, dist),
      iterations |-> acc.iterations + 1,
      dists |-> Append(acc.dists, dist),
      divisions |-> acc.divisions + 2]

RECURSIVE sdfGenBlock(_, _, _, _, _, _, _)
sdfGenBlock(i, stop, acc, vWorldPos, tex, numEdges, dz) ==
  IF i >= stop \/ ~SdfGenLoopContinues(i, numEdges) THEN acc
  ELSE sdfGenBlock(i + 1, stop, sdfGenBody(i, acc, vWorldPos, tex, numEdges, dz),
                   vWorldPos, tex, numEdges, dz)

\* The loop of the bake stage from iteration i on, unrolled the same way.
RECURSIVE sdfGenLoop(_, _, _, _, _, _)
sdfGenLoop(i, acc, vWorldPos, tex, numEdges, dz) ==
  IF ~SdfGenLoopContinues(i, numEdges) THEN acc
  ELSE LET done == sdfGenBlock(i, i + 16, acc, vWorldPos, tex, numEdges, dz)
           next == i + (done.iterations - acc.iterations)
       IN sdfGenLoop(next, done, vWorldPos, tex, numEdges, dz)

\* smoothstep(e0, e1, x) for e0 <= e1 given in thousandths and x >= 0, by
\* t = clamp((x - e0) / (e1 - e0), 0.0, 1.0): "0" and "1" are the two ends,
\* "between" is a value strictly inside.  With e0 = e1 the quotient is
\* +Inf or -Inf, which the clamp brings to an end, or 0.0 / 0.0.
Smoothstep(e0, e1, x, dz) ==
  LET below(e) == e > 0 /\ FloatLess(x, Thousandths(e))      \* x < e
      above(e) == e < 0 \/ FloatLess(Thousandths(e), x)      \* x > e
  IN IF e0 = e1
     THEN IF above(e0) THEN "1"
          ELSE IF below(e0) THEN "0"
          ELSE IF dz = "nan" THEN "nan" ELSE "between"
     ELSE IF ~above(e0) THEN "0"
          ELSE IF ~below(e1) THEN "1"
          ELSE "between"

\* 1.0 - s
OneMinus(s) == IF s = "0" THEN "1" ELSE IF s = "1" THEN "0" ELSE s

\* edge = 1.0 - smoothstep(edgeWidth - pixelWidth, edgeWidth + pixelWidth, minDist)
directEdge(minDist, edgeWidth, pw, dz) ==
  OneMinus(Smoothstep(edgeWidth - pw, edgeWidth + pw, minDist, dz))

\* main of the direct stage: gl_FragColor = vec4(edgeColor, edge).
directMain(vPosition, tex, numEdges, edgeWidth, pw, dz) ==
  LET acc == directLoop(0, LoopStart(DirectInitialMinDist), vPosition, tex,
                        numEdges, dz)
      edge == directEdge(acc.minDist, edgeWidth, pw, dz)
  IN [minDist |-> acc.minDist, iterations |-> acc.iterations,
      dists |-> acc.dists, divisions |-> acc.divisions, alpha |-> edge]

\* main of the bake stage: gl_FragColor = vec4(minDist, 0., 0.0, 1.0).
sdfGenMain(vWorldPos, tex, numEdges, dz) ==
  LET acc == sdfGenLoop(0, LoopStart(SdfGenInitialMinDist), vWorldPos, tex,
                        numEdges, dz)
  IN [r |-> acc.minDist, iterations |-> acc.iterations,
      dists |-> acc.dists, divisions |-> acc.divisions]

\* The last two statements of the lookup stage on a distance read from the
\* texture: smoothTransition, which mixes the highlight ("0") with white ("1").
lookupTransition(distance, aaThousandths, dz) ==
  Smoothstep(LookupThreshold - aaThousandths, LookupThreshold + aaThousandths,
             distance, dz)

(***************************************************************************)
(* The lookup stage.  A texel of the SDF target is [r, b] in thousandths:  *)
(* the bake writes (minDist, 0, 0, 1), the clear colour is (0, 0, 1, 1)    *)
(* and a multisampled texel on the border of the mesh is a mix of both.    *)
(* The target is sampled with nearest filtering, and texSize is one texel: *)
(* tex maps a cell, counted from the fragment's own texel <<0, 0>>, to its *)
(* texel, and a uv is a position in eighths of a texel from the corner of  *)
(* that texel.                                                             *)
(***************************************************************************)

\* texture2D(sdfTexture, uv): the texel the position falls in.
sdfTexture2D(tex, uv) == tex[<<uv[1] \div 8, uv[2] \div 8>>]

\* uv + offset * texSize * (eighths / 8)
UvPlus(uv, offset, eighths) ==
  <<uv[1] + offset[1] * eighths, uv[2] + offset[2] * eighths>>

\* vec2 neighbourOffsets[4]
neighbourOffsets == <<<<-1, 0>>, <<1, 0>>, <<0, -1>>, <<0, 1>>>>

\* fixDiscontinuities: slope and finalColor are computed and never used;
\* the value returned is edgeColor, with green and blue cleared when
\* (rDiff > 0.15 || edgeColor.b > 0.01) && edgeColor.r > 0.2.
fixDiscontinuities(tex, uv1, uv2) ==
  LET edgeColor == sdfTexture2D(tex, uv1)
      innerColor == sdfTexture2D(tex, uv2)
      rDiff == edgeColor.r - innerColor.r
  IN IF (rDiff > 150 \/ edgeColor.b > 10) /\ edgeColor.r > 200
     THEN [r |-> edgeColor.r, b |-> 0]
     ELSE edgeColor

\* vec4 ma = vec4(0.); vec2 minUVOffset = vec2(-1.);
ScanStart == [ma |-> [r |-> 0, b |-> 0], minUVOffset |-> <<-1, -1>>]

\* for (int i = 0; i < 4; i++): a neighbour with blue above 0.1 is skipped,
\* one with a red above ma.r becomes ma and its offset minUVOffset.
RECURSIVE scanNeighbours(_, _, _, _)
scanNeighbours(i, sel, tex, uv) ==
  IF i > 4 THEN sel
  ELSE LET neighbourData == sdfTexture2D(tex, UvPlus(uv, neighbourOffsets[i], 8))
       IN scanNeighbours(i + 1,
                         IF neighbourData.b > 100 THEN sel
                         ELSE IF neighbourData.r > sel.ma.r
                              THEN [ma |-> neighbourData,
                                    minUVOffset |-> neighbourOffsets[i]]
                              ELSE sel,
                         tex, uv)

\* Mutant: every texel is repaired.
IsBoundary_Always(edgeData) == TRUE

\* if (edgeData.b != 0.)
IsBoundary(edgeData) == edgeData.b # 0

\* main of the lookup stage.  levels counts the calls of fixDiscontinuities
\* and first, inner are the two texels the first call sampled.  The
\* edgeWidth uniform is declared and not read; the threshold is 0.3.
lookupMain(tex, uv, edgeWidth, aaThousandths, dz) ==
  LET edgeData == sdfTexture2D(tex, uv)
      sel == scanNeighbours(1, ScanStart, tex, uv)
      off == sel.minUVOffset
      finalColor == fixDiscontinuities(tex, UvPlus(uv, off, 8), UvPlus(uv, off, 2))
      finalColor1 == fixDiscontinuities(tex, UvPlus(uv, off, 2), UvPlus(uv, off, 6))
      repaired == IsBoundary(edgeData)
      second == repaired /\ finalColor.b > 0
      distance == IF ~repaired THEN edgeData.r
                  ELSE IF second THEN finalColor1.r
                  ELSE finalColor.r
  IN [distance |-> distance,
      repaired |-> repaired,
      minUVOffset |-> IF repaired THEN off ELSE <<>>,
      levels |-> IF ~repaired THEN 0 ELSE IF second THEN 2 ELSE 1,
      first |-> sdfTexture2D(tex, UvPlus(uv, off, 8)),
      inner |-> sdfTexture2D(tex, UvPlus(uv, off, 2)),
      smoothTransition |-> lookupTransition(Thousandths(distance), aaThousandths, dz)]

\* No fragment of the lookup stage is being shaded.
LookupIdle ==
  /\ sdfTexels = <<>>
  /\ vUV = <<0, 0>>
  /\ lookupEdgeWidth = DefaultEdgeWidth
  /\ aa = 0
  /\ outLookup = <<>>

\* Fragment positions and segments the stages are evaluated on.
FragPoints ==
  {<<0, 0, 0>>, <<2, 0, 0>>, <<1, 1, 0>>, <<3, 0, 0>>, <<0, 1, 2>>}

Segments ==
  {<<<<0, 0, 0>>, <<2, 0, 0>>>>,
   <<<<2, 0, 0>>, <<0, 0, 0>>>>,
   <<<<0, 0, 0>>, <<1, 1, 0>>>>,
   <<<<1, 1, 0>>, <<0, 1, 2>>>>,
   <<<<2, 1, 0>>, <<4, 1, 0>>>>,
   <<<<3, 0, 0>>, <<3, 0, 0>>>>,
   <<<<1200, 0, 0>>, <<1200, 1, 0>>>>,
   <<<<10001, 0, 0>>, <<10001, 1, 0>>>>}

EdgeLists == UNION {[1..n -> Segments] : n \in 0..MaxEdges}

\* Values of fwidth(minDist), in thousandths.
PixelWidths == {0, 50}

ShaderInit ==
  /\ HostInit
  /\ fragP \in FragPoints
  /\ edges \in EdgeLists
  /\ numEdgesUniform = loadEdgeTexture(edges).edgeCount
  /\ divZero \in {"nan", "finite"}
  /\ pixelWidth \in PixelWidths
  /\ outDirect = <<>>
  /\ outBake = <<>>
  /\ LookupIdle

\* The direct stage shades one fragment of the mesh.
DirectFragment ==
  /\ outDirect = <<>>
  /\ outDirect' = directMain(fragP, loadEdgeTexture(edges).edgeTexture,
                             numEdgesUniform, DefaultEdgeWidth, pixelWidth,
                             divZero)
  /\ UNCHANGED <<fragP, edges, numEdgesUniform, divZero, pixelWidth, outBake>>
  /\ UNCHANGED lookupVars
  /\ UNCHANGED hostVars

\* The bake stage shades one texel of the SDF target.
BakeFragment ==
  /\ outBake = <<>>
  /\ outBake' = sdfGenMain(fragP, loadEdgeTexture(edges).edgeTexture,
                           numEdgesUniform, divZero)
  /\ UNCHANGED <<fragP, edges, numEdgesUniform, divZero, pixelWidth, outDirect>>
  /\ UNCHANGED lookupVars
  /\ UNCHANGED hostVars

ShaderNext == DirectFragment \/ BakeFragment

ShaderSpec == ShaderInit /\ [][ShaderNext]_vars

\* Edge lists longer than the loop bound hold at most this many segments
\* beyond it.
MaxBeyond == 2

\* An edge list of n segments: head at index at - 1, tail at index 336 (the
\* first one beyond the loop bound), filler everywhere else.
LongList(n, filler, head, at, tail) ==
  [i \in 1..n |-> IF i = DirectLoopBound + 1 THEN tail
                  ELSE IF i = at THEN head
                  ELSE filler]

LongFillers ==
  {<<<<2, 1, 0>>, <<4, 1, 0>>>>,
   <<<<1200, 0, 0>>, <<1200, 1, 0>>>>}

LongHeads ==
  {<<<<0, 0, 0>>, <<2, 0, 0>>>>,
   <<<<3, 0, 0>>, <<3, 0, 0>>>>,
   <<<<1200, 0, 0>>, <<1200, 1, 0>>>>}

LongTails ==
  {<<<<0, 0, 0>>, <<1, 1, 0>>>>,
   <<<<10001, 0, 0>>, <<10001, 1, 0>>>>}

LongEdgeLists ==
  {LongList(n, filler, head, at, tail) :
     n \in (DirectLoopBound + 1)..(DirectLoopBound + MaxBeyond),
     filler \in LongFillers, head \in LongHeads,
     at \in {1, DirectLoopBound}, tail \in LongTails}

\* The fragment stages on an edge list longer than the loop bound.
LongInit ==
  /\ HostInit
  /\ fragP \in FragPoints
  /\ edges \in LongEdgeLists
  /\ numEdgesUniform = loadEdgeTexture(edges).edgeCount
  /\ divZero \in {"nan", "finite"}
  /\ pixelWidth = 0
  /\ outDirect = <<>>
  /\ outBake = <<>>
  /\ LookupIdle

LongSpec == LongInit /\ [][ShaderNext]_vars

\* Texels of the SDF target: inside the mesh (blue 0), background (the
\* clear colour) and multisampled border texels.
InsideTexels == {[r |-> 0, b |-> 0], [r |-> 100, b |-> 0],
                 [r |-> 250, b |-> 0], [r |-> 500, b |-> 0]}
BackgroundTexel == [r |-> 0, b |-> 1000]
BorderTexels == {[r |-> 300, b |-> 250], [r |-> 150, b |-> 500]}

CentreTexels == InsideTexels \cup {BackgroundTexel} \cup BorderTexels
NeighbourTexels ==
  {[r |-> 0, b |-> 0], [r |-> 250, b |-> 0], [r |-> 500, b |-> 0],
   BackgroundTexel, [r |-> 300, b |-> 250]}
DiagonalTexels == {[r |-> 500, b |-> 0], BackgroundTexel, [r |-> 300, b |-> 250]}

Cells == (-1..1) \X (-1..1)

\* The texels around the fragment's own; the three diagonal cells the stage
\* cannot reach are background.
Window(centre, left, right, below, above, diagonal) ==
  [c \in Cells |->
     IF c = <<0, 0>> THEN centre
     ELSE IF c = <<-1, 0>> THEN left
     ELSE IF c = <<1, 0>> THEN right
     ELSE IF c = <<0, -1>> THEN below
     ELSE IF c = <<0, 1>> THEN above
     ELSE IF c = <<-1, -1>> THEN diagonal
     ELSE BackgroundTexel]

Windows ==
  {Window(centre, left, right, below, above, diagonal) :
     centre \in CentreTexels,
     left \in NeighbourTexels, right \in {[r |-> 250, b |-> 0], BackgroundTexel},
     below \in NeighbourTexels, above \in {[r |-> 500, b |-> 0], BackgroundTexel},
     diagonal \in DiagonalTexels}

\* Places of the fragment in its texel, in eighths.
FragmentPlaces == {<<1, 1>>, <<4, 7>>, <<7, 2>>}

\* The lookup stage on one fragment.
LookupInit ==
  /\ HostInit
  /\ fragP = <<0, 0, 0>>
  /\ edges = <<>>
  /\ numEdgesUniform = 0
  /\ divZero \in {"nan", "finite"}
  /\ pixelWidth = 0
  /\ outDirect = <<>>
  /\ outBake = <<>>
  /\ sdfTexels \in Windows
  /\ vUV \in FragmentPlaces
  /\ lookupEdgeWidth \in {DefaultEdgeWidth, 650}
  /\ aa \in {0, 50}
  /\ outLookup = <<>>

LookupFragment ==
  /\ outLookup = <<>>
  /\ sdfTexels # <<>>
  /\ outLookup' = lookupMain(sdfTexels, vUV, lookupEdgeWidth, aa, divZero)
  /\ UNCHANGED <<fragP, edges, numEdgesUniform, divZero, pixelWidth, outDirect,
                 outBake, sdfTexels, vUV, lookupEdgeWidth, aa>>
  /\ UNCHANGED hostVars

LookupSpec == LookupInit /\ [][LookupFragment]_vars

(***************************************************************************)
(* Properties of the host side                                             *)
(***************************************************************************)

ModeSwitch ==
  \/ DirectButtonUp
  \/ LookupButtonUp
  \/ \E ev \in KeyEvents : ev.key \in {"1", "2"} /\ OnKeyboard(ev)

DebugKey == \E ev \in KeyEvents : ev.key = "d" /\ OnKeyboard(ev)

\* C1: once the application is set up, the material bound to the mesh is the
\* direct-edge material or the lookup material, and nothing else: not the
\* sdfGen bake material, not none.
C1_BoundMaterial ==
  phase = "running" =>
    /\ meshMaterial \in {edgeRenderer.directEdgeShader, edgeRenderer.lookupShader}
    /\ meshMaterial \in DOMAIN materialName
    /\ materialName[meshMaterial] \in {"directEdge", "lookupEdge"}

\* C1 witness: set up with the lookup material and then switched to direct.
C1_Witness ==
  /\ phase = "running"
  /\ materialName[meshMaterial] = "directEdge"
  /\ lastSampled = "unbaked"

\* C2: a mode switch (either button, key "1", key "2") binds one of the two
\* edge materials and leaves alone the references setupEdgeRendering
\* returned, the material objects and their uniforms, and the bake state; it
\* issues no bake.  Besides mesh.material only the highlight of the two
\* buttons changes.
C2_SwitchFrame ==
  [][ModeSwitch =>
       /\ meshMaterial' \in {edgeRenderer.directEdgeShader,
                              edgeRenderer.lookupShader}
       /\ UNCHANGED <<phase, sliderValue, inspectorVisible, debugPlaneVisible,
                      lastSampled>>
       /\ ui'.debugSdfButton = ui.debugSdfButton
       /\ edgeRenderer' = edgeRenderer
       /\ materialName' = materialName
       /\ edgeWidthUniform' = edgeWidthUniform
       /\ nextId' = nextId
       /\ bakeRenders' = bakeRenders
       /\ readbacks' = readbacks
       /\ afterRenderOnce' = afterRenderOnce
       /\ timers' = timers
       /\ polls' = polls
       /\ rtReady' = rtReady]_vars

\* C2 witness: the lookup mode was selected after the bake was issued.
C2_Witness ==
  /\ phase = "running"
  /\ bakeRenders = 1
  /\ materialName[meshMaterial] = "lookupEdge"
  /\ ui.lookupButton = "green"

\* C3: key "d" flips the visibility of the debug plane without an error
\* and leaves the bound material alone, and a mode switch leaves the
\* visibility alone.
C3_DebugToggle ==
  /\ [][DebugKey =>
          /\ ~threw'
          /\ "sdfDebugPlane" \in DOMAIN edgeRenderer
          /\ debugPlaneVisible' # debugPlaneVisible
          /\ meshMaterial' = meshMaterial]_vars
  /\ [][ModeSwitch => debugPlaneVisible' = debugPlaneVisible]_vars

\* C4: the bake pass is issued at most once, only by a poll that found the
\* target ready; once it is issued no poll is pending, and a frame of the
\* main loop never issues it.
C4_BakeOnce ==
  /\ [](bakeRenders <= 1)
  /\ [](bakeRenders >= 1 => timers = <<>>)
  /\ [][bakeRenders' # bakeRenders =>
          /\ bakeRenders' = bakeRenders + 1
          /\ rtReady'
          /\ TimerFire \/ phase = "boot"]_vars
  /\ [][Frame => bakeRenders' = bakeRenders /\ timers' = timers]_vars

\* C4 witness: the bake was issued by a retry, and frames ran after it.
C4_Witness ==
  /\ bakeRenders = 1
  /\ polls >= 2
  /\ lastSampled = "baked"

\* C5: a poll that finds the target not ready does not throw and leaves
\* exactly one retry pending, of 16 ms; no more than one retry is ever
\* pending; and once the target is ready the bake pass is issued.
C5_RetryUntilReady ==
  /\ [](Len(timers) <= 1)
  /\ [][(TimerFire /\ ~rtReady) =>
          /\ timers' = <<[callback |-> "renderWhenReady", delay |-> 16]>>
          /\ bakeRenders' = bakeRenders
          /\ ~threw']_vars
  /\ [][(phase = "boot" /\ phase' = "running" /\ ~rtReady') =>
          timers' = <<[callback |-> "renderWhenReady", delay |-> 16]>>]_vars
  /\ (phase = "running" /\ rtReady) ~> (bakeRenders = 1)

\* C5 witness: at least two polls found the target not ready, then one
\* found it ready.
C5_Witness ==
  /\ polls >= 3
  /\ rtReady
  /\ bakeRenders = 1
  /\ timers = <<>>

\* C6: whatever the state of the poll chain, a frame of the main loop can
\* run; with the lookup material bound before the bake pass it reads the
\* target as it is.
C6_FramesNeverBlocked ==
  /\ [](phase = "running" => ENABLED Frame)
  /\ [][(Frame /\ bakeRenders = 0 /\ materialName[meshMaterial] = "lookupEdge")
          => lastSampled' = "unbaked"]_vars

\* C6 witness: a retry is pending on a target that is not ready, and the
\* last frame sampled the target with the lookup material bound.
C6_Witness ==
  /\ phase = "running"
  /\ ~rtReady
  /\ timers # <<>>
  /\ polls >= 3
  /\ materialName[meshMaterial] = "lookupEdge"
  /\ lastSampled = "unbaked"

(***************************************************************************)
(* Properties of the fragment stages                                       *)
(***************************************************************************)

\* The values signedDistanceToSegment returned in the stages that have run;
\* value i belongs to segment i of the edge list.
StagesRun ==
  (IF outDirect = <<>> THEN {} ELSE {outDirect.dists})
    \cup (IF outBake = <<>> THEN {} ELSE {outBake.dists})

SegA(i) == edges[i][1]
SegB(i) == edges[i][2]
ProjN(i) == Dot(Vec3Sub(fragP, SegA(i)), Vec3Sub(SegB(i), SegA(i)))
ProjM(i) == Dot(Vec3Sub(SegB(i), SegA(i)), Vec3Sub(SegB(i), SegA(i)))
SqToA(i) == Dot(Vec3Sub(fragP, SegA(i)), Vec3Sub(fragP, SegA(i)))
SqToB(i) == Dot(Vec3Sub(fragP, SegB(i)), Vec3Sub(fragP, SegB(i)))

\* The square of the magnitude of x is num / den.
SquareIs(x, num, den) == ~x.nan /\ x.num * den = num * x.den

\* fragP lies on the line through the end points of segment i (equality in
\* the Cauchy-Schwarz inequality); with equal end points every point does.
OnLine(i) == ProjN(i) * ProjN(i) = SqToA(i) * ProjM(i)

Interior(i) == ProjM(i) > 0 /\ 0 < ProjN(i) /\ ProjN(i) < ProjM(i)

\* C7: for a segment with distinct end points the magnitude returned is the
\* distance to a when the projection parameter is at most 0, the distance
\* to b when it is at least 1, and otherwise the distance to the foot of
\* the perpendicular: |p - a|^2 - dot(p - a, ab)^2 / dot(ab, ab), squared.
C7_SegmentDistance ==
  \A dists \in StagesRun : \A i \in DOMAIN dists :
    ProjM(i) > 0 =>
      /\ ProjN(i) <= 0 => SquareIs(dists[i], SqToA(i), 1)
      /\ ProjN(i) >= ProjM(i) => SquareIs(dists[i], SqToB(i), 1)
      /\ Interior(i) =>
           SquareIs(dists[i], SqToA(i) * ProjM(i) - ProjN(i) * ProjN(i), ProjM(i))

\* C7 witness: both stages ran on a list with a segment whose parameter is
\* strictly inside (0, 1) and one where it is clamped to 1.
C7_Witness ==
  /\ outDirect # <<>>
  /\ outBake # <<>>
  /\ \E i, j \in DOMAIN edges :
       /\ Interior(i)
       /\ ProjM(j) > 0
       /\ ProjN(j) > ProjM(j)

\* C8 as stated: signedDistanceToSegment never returns a negative value
\* (checked on the segments with distinct end points).
C8_NeverNegative ==
  \A dists \in StagesRun : \A i \in DOMAIN dists :
    ProjM(i) > 0 => ~IsNegative(dists[i])

\* C8: the sign factor is -1 exactly when the point is on the line through
\* the end points, so the value returned is negative exactly for a point on
\* that line at a distance above 0 from the segment; off the line the factor
\* is +1 and abs(dist) is dist.
C8_NegativeOnLineOnly ==
  \A dists \in StagesRun : \A i \in DOMAIN dists :
    ~dists[i].nan =>
      /\ dists[i].neg <=> OnLine(i)
      /\ IsNegative(dists[i]) <=> (OnLine(i) /\ dists[i].num > 0)
      /\ ~OnLine(i) => Abs(dists[i]) = dists[i]

\* C8 witness: a point on the line of a segment, beyond its end, got a
\* negative value, and a point off the line of another got a positive one.
C8_Witness ==
  /\ outDirect # <<>>
  /\ \E i, j \in DOMAIN edges :
       /\ ProjM(i) > 0
       /\ IsNegative(outDirect.dists[i])
       /\ ~OnLine(j)
       /\ ~outDirect.dists[j].neg

\* The absolute distances of the segments of a list to fragP, one by one.
DirectDistances(list) ==
  {Abs(signedDistanceToSegment(fragP, list[i][1], list[i][2], divZero)) :
     i \in DOMAIN list}

SdfGenDistances(list) ==
  {Abs(sdfGen_signedDistanceToSegment(fragP, list[i][1], list[i][2], divZero)) :
     i \in DOMAIN list}

\* The least float of a set without NaN.
Least(S) == CHOOSE x \in S : \A y \in S : ~FloatLess(y, x)

NoDegenerate == \A i \in DOMAIN edges : ProjM(i) > 0

Permuted(f) == [i \in DOMAIN edges |-> edges[f[i]]]

\* C9 as stated: minDist is the minimum of the N absolute segment distances
\* (checked for N >= 1 and segments with distinct end points).
C9_MinOfAll ==
  (Len(edges) >= 1 /\ NoDegenerate) =>
    /\ outDirect # <<>> => outDirect.minDist = Least(DirectDistances(edges))
    /\ outBake # <<>> => outBake.r = Least(SdfGenDistances(edges))

\* C9: minDist is the least of the stage's initial value (1000.0 direct,
\* 10000.0 bake) and the absolute segment distances that are numbers, and
\* it is the same for every permutation of the edge list.
C9_MinWithInitial ==
  /\ outDirect # <<>> =>
       /\ outDirect.minDist =
            Least({Whole(1000)} \cup {x \in DirectDistances(edges) : ~x.nan})
       /\ \A f \in Permutations(DOMAIN edges) :
            directMain(fragP, loadEdgeTexture(Permuted(f)).edgeTexture,
                       Len(edges), DefaultEdgeWidth, pixelWidth,
                       divZero).minDist = outDirect.minDist
  /\ outBake # <<>> =>
       /\ outBake.r =
            Least({Whole(10000)} \cup {x \in SdfGenDistances(edges) : ~x.nan})
       /\ \A f \in Permutations(DOMAIN edges) :
            sdfGenMain(fragP, loadEdgeTexture(Permuted(f)).edgeTexture,
                       Len(edges), divZero).r = outBake.r

\* C9 witness: two segments at different distances, the nearer one first,
\* and both stages returned its distance.
C9_Witness ==
  /\ Len(edges) = 2
  /\ outDirect # <<>>
  /\ outBake # <<>>
  /\ FloatLess(Abs(outDirect.dists[1]), Abs(outDirect.dists[2]))
  /\ outDirect.minDist = Abs(outDirect.dists[1])
  /\ outBake.r = Abs(outBake.dists[1])

\* C10: with numEdges = 0 both stages return their initial value, which is
\* a number, without executing a loop body or a division by numEdges * 2;
\* the direct stage outputs alpha 0 and the lookup stage's transition on
\* the baked value is 1 (no highlight).
C10_ZeroSegments ==
  numEdgesUniform = 0 =>
    /\ outDirect # <<>> =>
         /\ outDirect.minDist = Whole(DirectInitialMinDist)
         /\ ~outDirect.minDist.nan
         /\ outDirect.iterations = 0
         /\ outDirect.divisions = 0
         /\ outDirect.alpha = "0"
    /\ outBake # <<>> =>
         /\ outBake.r = Whole(SdfGenInitialMinDist)
         /\ ~outBake.r.nan
         /\ outBake.iterations = 0
         /\ outBake.divisions = 0
         /\ lookupTransition(outBake.r, 0, divZero) = "1"

\* C10 witness: both stages ran on the empty edge list.
C10_Witness ==
  /\ edges = <<>>
  /\ numEdgesUniform = 0
  /\ outDirect # <<>>
  /\ outBake # <<>>

(***************************************************************************)
(* Edge lists longer than the loop bound                                   *)
(***************************************************************************)

\* The segments the loop of either stage can visit: indices 0..335.
Visited == SubSeq(edges, 1, DirectLoopBound)

VisitedNoDegenerate == \A i \in DOMAIN Visited : ProjM(i) > 0

\* C11 as stated: with more than 336 segments the value returned is exactly
\* the minimum absolute distance over segments 0..335 (checked on lists whose
\* first 336 segments have distinct end points).
C11_MinOfFirst336 ==
  (Len(edges) > DirectLoopBound /\ VisitedNoDegenerate) =>
    /\ outDirect # <<>> => outDirect.minDist = Least(DirectDistances(Visited))
    /\ outBake # <<>> => outBake.r = Least(SdfGenDistances(Visited))

\* C11: with more than 336 segments each stage executes exactly 336 loop
\* bodies, body i reads the end points of segment i from texels 2i and
\* 2i + 1 of the texture of width 2N, and the value returned is the least of
\* the stage's initial value and the absolute distances of segments 0..335
\* that are numbers; the segments from index 336 on have no part in it.
C11_TruncatedAt336 ==
  Len(edges) > DirectLoopBound =>
    LET tex == loadEdgeTexture(edges).edgeTexture
        own(dists) ==
          /\ Len(dists) = DirectLoopBound
          /\ \A i \in 1..DirectLoopBound :
               /\ texture2D(tex, TexCoord(2 * (i - 1), numEdgesUniform)) = tex[2 * i - 1]
               /\ tex[2 * i - 1] = edges[i][1]
               /\ texture2D(tex, TexCoord(2 * (i - 1) + 1, numEdgesUniform)) = tex[2 * i]
               /\ tex[2 * i] = edges[i][2]
    IN /\ outDirect # <<>> =>
            /\ outDirect.iterations = DirectLoopBound
            /\ own(outDirect.dists)
            /\ \A i \in 1..DirectLoopBound :
                 outDirect.dists[i] =
                   signedDistanceToSegment(fragP, edges[i][1], edges[i][2], divZero)
            /\ outDirect.minDist =
                 Least({Whole(DirectInitialMinDist)}
                         \cup {x \in DirectDistances(Visited) : ~x.nan})
       /\ outBake # <<>> =>
            /\ outBake.iterations = SdfGenLoopBound
            /\ own(outBake.dists)
            /\ \A i \in 1..SdfGenLoopBound :
                 outBake.dists[i] =
                   sdfGen_signedDistanceToSegment(fragP, edges[i][1], edges[i][2], divZero)
            /\ outBake.r =
                 Least({Whole(SdfGenInitialMinDist)}
                         \cup {x \in SdfGenDistances(Visited) : ~x.nan})

\* C11 witness: both stages ran on a list of more than 336 segments whose
\* segment 336 is strictly nearer than every segment before it, and both
\* returned the distance of a visited segment, not that of segment 336.
C11_Witness ==
  /\ Len(edges) > DirectLoopBound
  /\ outDirect # <<>>
  /\ outBake # <<>>
  /\ VisitedNoDegenerate
  /\ LET beyond == Abs(signedDistanceToSegment(fragP, edges[DirectLoopBound + 1][1],
                                                edges[DirectLoopBound + 1][2], divZero))
     IN /\ \A x \in DirectDistances(Visited) : FloatLess(beyond, x)
        /\ FloatLess(beyond, outDirect.minDist)
        /\ FloatLess(beyond, outBake.r)
  /\ outDirect.minDist \in DirectDistances(Visited)
  /\ outBake.r \in SdfGenDistances(Visited)

(***************************************************************************)
(* The edge texture                                                        *)
(***************************************************************************)

\* C12: for an edge list of N point pairs loadEdgeTexture returns a row of
\* exactly 2N texels and edgeCount = N, and for every i in [0, N) the
\* coordinates (2i + 0.5) / (2N) and (2i + 1.5) / (2N) fall, without any
\* clamping, in texel 2i and texel 2i + 1, which hold the start and the end
\* of segment i.
C12_TexelAddressing ==
  LET loaded == loadEdgeTexture(edges)
      tex == loaded.edgeTexture
      width == Cardinality(DOMAIN tex)
      N == Len(edges)
  IN /\ width = 2 * N
     /\ loaded.edgeCount = N
     /\ numEdgesUniform = loaded.edgeCount
     /\ \A i \in 0..(N - 1) :
          LET texCoord1 == TexCoord(i * 2, numEdgesUniform)
              texCoord2 == TexCoord(i * 2 + 1, numEdgesUniform)
          IN /\ texCoord1.num * (4 * N) = (4 * i + 1) * texCoord1.den
             /\ texCoord2.num * (4 * N) = (4 * i + 3) * texCoord2.den
             /\ RawTexel(width, texCoord1) = 2 * i
             /\ RawTexel(width, texCoord2) = 2 * i + 1
             /\ NearestTexel(width, texCoord1) = RawTexel(width, texCoord1)
             /\ NearestTexel(width, texCoord2) = RawTexel(width, texCoord2)
             /\ RawTexel(width, texCoord1) \in 0..(2 * N - 1)
             /\ RawTexel(width, texCoord2) \in 0..(2 * N - 1)
             /\ texture2D(tex, texCoord1) = edges[i + 1][1]
             /\ texture2D(tex, texCoord2) = edges[i + 1][2]

\* C12 witness: both stages sampled the texture of a list of two different
\* segments, four texels of which no two neighbours are equal.
C12_Witness ==
  /\ Len(edges) = 2
  /\ edges[1][1] # edges[1][2]
  /\ edges[1][2] # edges[2][1]
  /\ edges[2][1] # edges[2][2]
  /\ outDirect # <<>>
  /\ outBake # <<>>
  /\ outDirect.iterations = 2
  /\ outBake.iterations = 2

(***************************************************************************)
(* The lookup stage                                                        *)
(***************************************************************************)

Centre == sdfTexels[<<0, 0>>]

\* C13: for a texel whose blue channel is 0 the repair does nothing: no
\* call of fixDiscontinuities is made and the distance thresholded is the
\* texel's own red value, whatever the neighbouring texels hold.
C13_InteriorUntouched ==
  (outLookup # <<>> /\ Centre.b = 0) =>
    /\ ~outLookup.repaired
    /\ outLookup.levels = 0
    /\ outLookup.distance = Centre.r
    /\ outLookup.smoothTransition =
         lookupTransition(Thousandths(Centre.r), aa, divZero)

\* C13 witness: the stage ran on an interior texel with a neighbour of a
\* larger red value and a background neighbour, and kept the texel's value.
C13_Witness ==
  /\ outLookup # <<>>
  /\ Centre.b = 0
  /\ Centre.r > 0
  /\ sdfTexels[<<-1, 0>>].b = 0
  /\ sdfTexels[<<-1, 0>>].r > Centre.r
  /\ sdfTexels[<<1, 0>>] = BackgroundTexel
  /\ outLookup.distance = Centre.r

AxisOffsets == {neighbourOffsets[i] : i \in 1..4}

\* The axis neighbours that are not background (blue at most 0.1).
ValidOffsets == {o \in AxisOffsets : ~(sdfTexels[o].b > 100)}

\* x is a linear extrapolation from the samples far and near.
Extrapolated(x, far, near) == \E k \in 1..8 : x = far + (far - near) * k

\* C15 as stated: for a texel whose blue channel is not 0 the offset
\* selected is one of the 4 axis-aligned offsets, that of the non-background
\* neighbour with the largest red value; the corrected value is a linear
\* extrapolation between the sample at that offset and the second sample
\* along it; and fixDiscontinuities is called at most twice.
C15_AxisAlignedExtrapolation ==
  (outLookup # <<>> /\ Centre.b # 0) =>
    /\ outLookup.repaired
    /\ outLookup.levels \in {1, 2}
    /\ outLookup.minUVOffset \in AxisOffsets
    /\ \A o \in ValidOffsets :
         sdfTexels[o].r <= sdfTexels[outLookup.minUVOffset].r
    /\ outLookup.levels = 1 =>
         \/ Extrapolated(outLookup.distance, outLookup.first.r, outLookup.inner.r)
         \/ Extrapolated(outLookup.distance, outLookup.inner.r, outLookup.first.r)

\* What the repair does: at most two calls of fixDiscontinuities; the offset
\* is that of the first valid axis neighbour with the largest red value if
\* that value is above 0, and otherwise stays <<-1, -1>>; the value is the
\* red of the texel sampled at that offset, or, at the second level, of the
\* texel a quarter of the offset away.
C15_RepairAsCoded ==
  (outLookup # <<>> /\ Centre.b # 0) =>
    LET off == outLookup.minUVOffset
        best == {o \in ValidOffsets :
                   /\ sdfTexels[o].r > 0
                   /\ \A q \in ValidOffsets : sdfTexels[q].r <= sdfTexels[o].r}
    IN /\ outLookup.levels \in {1, 2}
       /\ best = {} <=> off = <<-1, -1>>
       /\ best # {} => off \in best
       /\ outLookup.levels = 1 => outLookup.distance = sdfTexels[off].r
       /\ outLookup.levels = 2 =>
            /\ off = <<-1, -1>>
            /\ outLookup.distance = sdfTexture2D(sdfTexels, UvPlus(vUV, off, 2)).r

\* A boundary texel was repaired with the diagonal offset, and another with
\* an axis offset whose two samples differ.
C15_Witness ==
  /\ outLookup # <<>>
  /\ Centre.b # 0
  /\ \/ outLookup.minUVOffset = <<-1, -1>> /\ outLookup.levels = 2
     \/ /\ outLookup.minUVOffset \in AxisOffsets
        /\ outLookup.first.r # outLookup.inner.r

(***************************************************************************)
(* The edge width                                                          *)
(***************************************************************************)

\* Distances, in thousandths, that tell the edge widths in use apart.
ProbeDistances == {5, 150, 400, 600, 800, 1100}

\* An SDF target that holds the distance d in every texel.
FlatWindow(d) == [c \in Cells |-> [r |-> d, b |-> 0]]

\* The direct material, with its edgeWidth uniform as the host last set it,
\* highlights a fragment at distance d (alpha 1, no derivative term).
DirectHighlights(d) ==
  directEdge(Thousandths(d), edgeWidthUniform[edgeRenderer.directEdgeShader],
             0, "nan") = "1"

\* The lookup material, with its edgeWidth uniform as the host last set it,
\* highlights a fragment whose texel holds d (smoothTransition 0).
LookupHighlights(d) ==
  lookupMain(FlatWindow(d), <<4, 4>>, edgeWidthUniform[edgeRenderer.lookupShader],
             0, "nan").smoothTransition = "0"

DirectThresholdsAt(w) == \A d \in ProbeDistances : DirectHighlights(d) <=> d < w
LookupThresholdsAt(w) == \A d \in ProbeDistances : LookupHighlights(d) <=> d < w

\* C14 as stated: after setup both materials threshold at the configured
\* edgeWidth (0.3 when absent), and after a slider change both threshold at
\* the value the slider reported.
C14_BothFollowEdgeWidth ==
  [][/\ \A options \in EdgeRenderingOptions, ready \in BOOLEAN :
          Construct(options, ready) =>
            /\ DirectThresholdsAt(OptEdgeWidth(options))'
            /\ LookupThresholdsAt(OptEdgeWidth(options))'
     /\ \A value \in SliderValues :
          SliderChanged(value) =>
            /\ DirectThresholdsAt(value)'
            /\ LookupThresholdsAt(value)']_vars

\* What holds: the direct material thresholds at the edgeWidth set last
\* (options.edgeWidth || 0.3, then the slider's values), the lookup
\* material at 0.3 whatever its uniform holds.
C14_DirectFollowsLookupFixed ==
  [][/\ \A options \in EdgeRenderingOptions, ready \in BOOLEAN :
          Construct(options, ready) =>
            /\ DirectThresholdsAt(OptEdgeWidth(options))'
            /\ LookupThresholdsAt(LookupThreshold)'
     /\ \A value \in SliderValues :
          SliderChanged(value) =>
            /\ DirectThresholdsAt(value)'
            /\ LookupThresholdsAt(LookupThreshold)'
            /\ edgeWidthUniform'[edgeRenderer.lookupShader] = value]_vars

(***************************************************************************)
(* The bake stage against the direct stage                                 *)
(***************************************************************************)

BothRan == outDirect # <<>> /\ outBake # <<>>

\* C16 as stated: for every position and every segment list the red value
\* the bake stage writes equals the minDist of the direct stage.
C16_BakeEqualsDirect == BothRan => outBake.r = outDirect.minDist

\* C16: on the same position and segments both stages execute the same
\* loop bodies and obtain the same distance for every segment; the direct
\* minDist is min(1000.0, red), so the two values are equal exactly when
\* the red value is at most 1000.0, that is when some segment is no farther
\* than that, and otherwise minDist is 1000.0 and red is larger.
C16_EqualUpToInitial ==
  BothRan =>
    /\ outBake.iterations = outDirect.iterations
    /\ outBake.dists = outDirect.dists
    /\ outDirect.minDist = GlslMin(outBake.r, Whole(DirectInitialMinDist))
    /\ outBake.r = outDirect.minDist
         <=> ~FloatLess(Whole(DirectInitialMinDist), outBake.r)
    /\ outBake.r # outDirect.minDist
         => outDirect.minDist = Whole(DirectInitialMinDist)

\* C16 witness: both stages ran on two segments at different distances
\* below 1000.0 and returned the same value.
C16_Witness ==
  /\ BothRan
  /\ Len(edges) = 2
  /\ NoDegenerate
  /\ Abs(outBake.dists[1]) # Abs(outBake.dists[2])
  /\ FloatLess(outBake.r, Whole(DirectInitialMinDist))
  /\ outBake.r = outDirect.minDist

====
